---- MODULE Spec2Model ----
(***************************************************************************)
(* Model of the voice-agent relay of src/index.js: one process that        *)
(* accepts media WebSocket connections, forwards inbound audio to a live   *)
(* ASR stream, and for each transcript runs                                *)
(* getAgentResponse -> generateSpeech -> ws.send as an async listener.     *)
(*                                                                         *)
(* JavaScript arrays are objects: `arrays` is the heap of history arrays,  *)
(* conversationHistories maps a key to a reference into it, and each       *)
(* running listener keeps the reference it obtained.                       *)
(***************************************************************************)
EXTENDS Integers, Sequences, FiniteSets, TLC

\* ---------------------------------------------------------------- bounds
NumConns == 2        \* media connections the model opens
MaxTurns == 2        \* non-empty transcripts delivered in one behaviour
MaxInFlight == 2     \* listener invocations suspended at an await at once
MaxFrames == 2       \* inbound media frames in one behaviour
LongTurns == 11      \* transcripts of the long single-connection run
BurstTurns == 3      \* transcripts of the overlapping single-connection run

\* ------------------------------------------------------- program constants
CallKey == "call-1"                 \* the literal key every listener passes
HistoryCap == 20                    \* the documented cap on history length
FrameSize == 160                    \* the documented frame: 20 ms of audio
SystemEntry == [role |-> "system", content |-> 0]

Conns == 1..NumConns
Keys == {CallKey, "CA1"}            \* map keys: the literal and a real CallSid
\* generateSpeech(reply): the byte length of the audio synthesized for the
\* reply of turn n, a whole number of 20 ms frames or not.
AudioLen(n) == IF n % 2 = 1 THEN 400 ELSE 160
NoRef == 0

VARIABLES
    procUp,         \* the node process is running
    rejectionMode,  \* node's --unhandled-rejections mode: "throw" | "warn"
    wsState,        \* per connection: "none" | "open" | "closed"
    stopped,        \* per connection: a stop event has been received
    dgFinished,     \* per connection: dgLive.finish() has been called
    arrived,        \* per connection: payloads of inbound media events, in order
    dgSent,         \* per connection: payloads passed to dgLive.send, in order
    wsSent,         \* per connection: the ws.send calls made, in order
    msgErrors,      \* exceptions thrown out of a ws "message" handler
    arrays,         \* heap of history arrays: ref -> sequence of entries
    convMap,        \* conversationHistories: key -> ref (NoRef when absent)
    turns           \* listener invocations that passed the text test, by id

vars == <<procUp, rejectionMode, wsState, stopped, dgFinished, arrived, dgSent,
          wsSent, msgErrors, arrays, convMap, turns>>

connVars == <<wsState, stopped, dgFinished, arrived, dgSent, msgErrors>>

\* ------------------------------------------------------------- helpers
RECURSIVE SumLen(_, _)
SumLen(f, k) == IF k = 0 THEN 0 ELSE Len(f[k]) + SumLen(f, k - 1)

InFlight(t) == t.pc \in {"awaitLLM", "awaitTTS"}

TurnIds == 1..Len(turns)

InFlightIds == {n \in TurnIds : InFlight(turns[n])}

InFlightOn(c) == {n \in InFlightIds : turns[n].conn = c}

FramesArrived == SumLen(arrived, NumConns)

\* conversationHistories.get(callSid) || [system]: the stored array, or a
\* fresh one allocated on the heap.
HistoryRef(key) == IF convMap[key] # NoRef THEN convMap[key] ELSE Len(arrays) + 1

\* Mutant of HeapWithRef: the fresh array is created empty.
HeapWithEmptyRef(key) ==
    IF convMap[key] # NoRef THEN arrays ELSE Append(arrays, <<>>)

HeapWithRef(key) ==
    IF convMap[key] # NoRef THEN arrays ELSE Append(arrays, <<SystemEntry>>)

Push(heap, ref, entry) == [heap EXCEPT ![ref] = Append(@, entry)]

\* String.prototype.trim on the transcript texts of the model.
Trim(text) == IF text = " " THEN "" ELSE text

\* transcript && transcript.trim() !== ""
PassesTextTest(text) == text # "" /\ Trim(text) # ""

\* ------------------------------------------------------------- Init
Init ==
    /\ procUp = TRUE
    /\ rejectionMode \in {"throw", "warn"}
    /\ wsState = [c \in Conns |-> "none"]
    /\ stopped = [c \in Conns |-> FALSE]
    /\ dgFinished = [c \in Conns |-> FALSE]
    /\ arrived = [c \in Conns |-> <<>>]
    /\ dgSent = [c \in Conns |-> <<>>]
    /\ wsSent = [c \in Conns |-> <<>>]
    /\ msgErrors = 0
    /\ arrays = <<>>
    /\ convMap = [k \in Keys |-> NoRef]
    /\ turns = <<>>

\* ------------------------------------------------------------- actions

\* wss.on("connection"): a media connection is accepted, its dgLive stream
\* is created and the three listeners are registered.
Connection(c) ==
    /\ procUp
    /\ wsState[c] = "none"
    /\ wsState' = [wsState EXCEPT ![c] = "open"]
    /\ UNCHANGED <<procUp, rejectionMode, stopped, dgFinished, arrived, dgSent,
                   wsSent, msgErrors, arrays, convMap, turns>>

\* dgLive "transcriptReceived" listener, up to its first suspension: the text
\* test, then getAgentResponse as far as the await on the completion request
\* (lookup-or-create of the history array and the push of the user entry).
\* dgMsg.is_final is never read.  The n-th transcript that passes the text
\* test carries the text n.
TranscriptReceived(c, text, isFinal, maxTurns, maxInFlight) ==
    /\ procUp
    /\ wsState[c] # "none"
    /\ \/ /\ ~PassesTextTest(text)
          /\ UNCHANGED <<arrays, convMap, turns>>
       \/ /\ PassesTextTest(text)
          /\ Len(turns) < maxTurns
          /\ Cardinality(InFlightIds) < maxInFlight
          /\ LET n == Len(turns) + 1
                 ref == HistoryRef(CallKey)
             IN /\ arrays' = Push(HeapWithRef(CallKey), ref,
                                  [role |-> "user", content |-> n])
                /\ turns' = Append(turns,
                      [conn |-> c, isFinal |-> isFinal, pc |-> "awaitLLM",
                       hist |-> ref, fail |-> "none",
                       busy |-> InFlightOn(c) # {},
                       wsOpen |-> wsState[c] = "open",
                       arrAtStart |-> Len(arrived[c]),
                       fwdAtStart |-> Len(dgSent[c])])
          /\ UNCHANGED convMap
    /\ UNCHANGED <<procUp, rejectionMode, connVars, wsSent>>

\* The completion request resolves: getAgentResponse pushes the assistant
\* entry on the array it holds, stores that array under the key and returns;
\* the listener goes on to request speech for the reply.
LLMResolve(n) ==
    /\ procUp
    /\ n \in TurnIds
    /\ turns[n].pc = "awaitLLM"
    /\ arrays' = Push(arrays, turns[n].hist, [role |-> "assistant", content |-> n])
    /\ convMap' = [convMap EXCEPT ![CallKey] = turns[n].hist]
    /\ turns' = [turns EXCEPT ![n].pc = "awaitTTS"]
    /\ UNCHANGED <<procUp, rejectionMode, connVars, wsSent>>

\* A rejected await inside the async listener: nothing catches it, so the
\* listener's promise rejects unhandled.  Node ends the process in its
\* default "throw" mode and only warns in "warn" mode.
Rejected(n, where) ==
    /\ turns' = [turns EXCEPT ![n].pc = "failed", ![n].fail = where]
    /\ procUp' = (rejectionMode = "warn")

\* The completion request throws.
LLMReject(n) ==
    /\ procUp
    /\ n \in TurnIds
    /\ turns[n].pc = "awaitLLM"
    /\ Rejected(n, "llm")
    /\ UNCHANGED <<rejectionMode, connVars, wsSent, arrays, convMap>>

\* Mutant of ListenerWs: the socket is kept in one variable shared by all
\* connections, so a listener sends on the connection accepted last.
LastAcceptedWs(n) ==
    CHOOSE c \in Conns :
        /\ wsState[c] # "none"
        /\ \A d \in Conns : wsState[d] # "none" => d <= c

\* The ws the listener of turn n sends on: the parameter of the connection
\* handler that registered it, captured by the listener's closure.
ListenerWs(n) == turns[n].conn

\* generateSpeech returns the whole synthesized buffer and the listener
\* passes it to ws.send as a single media event, without looking at the
\* connection's state.  wsSent records each call with the state the
\* connection was in when the call was made.
TTSResolve(n) ==
    /\ procUp
    /\ n \in TurnIds
    /\ turns[n].pc = "awaitTTS"
    /\ LET c == ListenerWs(n)
       IN wsSent' = [wsSent EXCEPT ![c] = Append(@,
              [event |-> "media", turn |-> n, bytes |-> AudioLen(n),
               open |-> wsState[c] = "open", stopped |-> stopped[c]])]
    /\ turns' = [turns EXCEPT ![n].pc = "done"]
    /\ UNCHANGED <<procUp, rejectionMode, connVars, arrays, convMap>>

\* The speech request or a read of its stream throws.
TTSReject(n) ==
    /\ procUp
    /\ n \in TurnIds
    /\ turns[n].pc = "awaitTTS"
    /\ Rejected(n, "tts")
    /\ UNCHANGED <<rejectionMode, connVars, wsSent, arrays, convMap>>

\* Mutant of DgSend: the payload is put in front of what was already passed.
DgSendInFront(c, payload) == [dgSent EXCEPT ![c] = <<payload>> \o @]

\* Mutant of DgSend: forwarding waits for the reply pipeline, so a payload
\* that arrives while a turn of the connection is in flight is not passed on.
DgSendUnlessReplying(c, payload) ==
    IF InFlightOn(c) # {} THEN dgSent ELSE [dgSent EXCEPT ![c] = Append(@, payload)]

\* dgLive.send(data.media.payload): the payload is handed to the ASR stream
\* of the connection, after those handed to it before.
DgSend(c, payload) == [dgSent EXCEPT ![c] = Append(@, payload)]

\* ws "message" handler.  kind is the shape of the inbound message:
\*   "media"      {event:"media", media:{payload}}; the k-th carries payload k
\*   "mediaEmpty" {event:"media"} without a payload
\*   "start"      {event:"start", ...}
\*   "stop"       {event:"stop"}
\*   "badJson"    text that is not JSON: JSON.parse throws out of the handler,
\*                an uncaught exception that ends the process
WsMessage(c, kind) ==
    /\ procUp
    /\ wsState[c] = "open"
    /\ \/ /\ kind = "media"
          /\ FramesArrived < MaxFrames
          /\ arrived' = [arrived EXCEPT ![c] = Append(@, Len(@) + 1)]
          /\ dgSent' = DgSend(c, Len(arrived[c]) + 1)
          /\ UNCHANGED <<procUp, stopped, msgErrors>>
       \/ /\ kind \in {"mediaEmpty", "start"}
          /\ UNCHANGED <<procUp, stopped, msgErrors, arrived, dgSent>>
       \/ /\ kind = "stop"
          /\ stopped' = [stopped EXCEPT ![c] = TRUE]
          /\ UNCHANGED <<procUp, msgErrors, arrived, dgSent>>
       \/ /\ kind = "badJson"
          /\ msgErrors' = msgErrors + 1
          /\ procUp' = FALSE
          /\ UNCHANGED <<stopped, arrived, dgSent>>
    /\ UNCHANGED <<rejectionMode, wsState, dgFinished, wsSent, arrays, convMap,
                   turns>>

\* ws "close" handler: dgLive.finish(), nothing else.
WsClose(c) ==
    /\ procUp
    /\ wsState[c] = "open"
    /\ wsState' = [wsState EXCEPT ![c] = "closed"]
    /\ dgFinished' = [dgFinished EXCEPT ![c] = TRUE]
    /\ UNCHANGED <<procUp, rejectionMode, stopped, arrived, dgSent, wsSent,
                   msgErrors, arrays, convMap, turns>>

\* POST /call-status: conversationHistories.delete(req.body.CallSid).
CallStatus(callSid) ==
    /\ procUp
    /\ convMap' = [convMap EXCEPT ![callSid] = NoRef]
    /\ UNCHANGED <<procUp, rejectionMode, connVars, wsSent, arrays, turns>>

\* ------------------------------------------------------- specifications
MsgKinds == {"media", "mediaEmpty", "start", "stop", "badJson"}

Texts == {"", " ", "words"}

Next ==
    \/ \E c \in Conns : Connection(c)
    \/ \E c \in Conns, text \in Texts, isFinal \in BOOLEAN :
          TranscriptReceived(c, text, isFinal, MaxTurns, MaxInFlight)
    \/ \E n \in TurnIds : LLMResolve(n)
    \/ \E n \in TurnIds : LLMReject(n)
    \/ \E n \in TurnIds : TTSResolve(n)
    \/ \E n \in TurnIds : TTSReject(n)
    \/ \E c \in Conns, kind \in MsgKinds : WsMessage(c, kind)
    \/ \E c \in Conns : WsClose(c)
    \/ \E callSid \in Keys : CallStatus(callSid)

Spec == Init /\ [][Next]_vars

\* One connection taking LongTurns turns one after another.
NextLong ==
    \/ Connection(1)
    \/ \E isFinal \in BOOLEAN : TranscriptReceived(1, "words", isFinal, LongTurns, 1)
    \/ \E n \in TurnIds : LLMResolve(n)
    \/ \E n \in TurnIds : TTSResolve(n)

SpecLong == Init /\ [][NextLong]_vars

\* One connection whose transcripts arrive while earlier turns are pending.
NextBurst ==
    \/ Connection(1)
    \/ \E isFinal \in BOOLEAN :
          TranscriptReceived(1, "words", isFinal, BurstTurns, MaxInFlight)
    \/ \E n \in TurnIds : LLMResolve(n)
    \/ \E n \in TurnIds : TTSResolve(n)
    \/ WsClose(1)

SpecBurst == Init /\ [][NextBurst]_vars

\* ---------------------------------------------------------- observations
UserEntry(n) == [role |-> "user", content |-> n]

AssistantEntry(n) == [role |-> "assistant", content |-> n]

\* The reply the design substitutes when text generation fails; the code
\* never builds it.
FallbackEntry == [role |-> "assistant", content |-> -1]

\* Some history array holds the user entry of turn n.
HasUserEntry(n) ==
    \E r \in DOMAIN arrays : \E i \in DOMAIN arrays[r] : arrays[r][i] = UserEntry(n)

\* Some ws.send call carried the reply of turn n.
SentFor(n) ==
    \E c \in Conns : \E i \in DOMAIN wsSent[c] : wsSent[c][i].turn = n

\* The connections whose transcripts put a user entry into array r.
ConnsIn(r) ==
    {turns[arrays[r][i].content].conn :
        i \in {j \in DOMAIN arrays[r] : arrays[r][j].role = "user"}}

\* The session of connection c has been told to end.
TornDown(c) == stopped[c] \/ wsState[c] = "closed"

\* The history stored in conversationHistories holds an entry of connection c.
StoredHistoryOf(c) ==
    \E k \in Keys : convMap[k] # NoRef /\ c \in ConnsIn(convMap[k])

\* ------------------------------------------------------------- claims

\* C1: turn execution is serialized per session: in every reachable state at
\* most one turn (history update, text generation, synthesis, send) is in
\* progress on a connection.
C1_OneTurnPerSession ==
    \A c \in Conns : Cardinality(InFlightOn(c)) <= 1

\* C2: a finalized transcript that arrives while a turn of the same session is
\* in flight is discarded: it updates no history and produces no outbound
\* reply, so a burst of finals during one reply adds no reply of its own.
C2_BusyFinalDiscarded ==
    \A n \in TurnIds :
        (turns[n].isFinal /\ turns[n].busy) => (~HasUserEntry(n) /\ ~SentFor(n))

\* C3: an interim transcript (isFinal false) drives no turn: it appends no
\* history entry (so no completion request carries it) and no outbound audio
\* is sent for it.
C3_InterimDrivesNoTurn ==
    \A n \in TurnIds :
        ~turns[n].isFinal => (~HasUserEntry(n) /\ ~SentFor(n))

\* C4: after any sequence of turns the length of a conversation history never
\* exceeds the cap of 20 entries.
C4_HistoryWithinCap ==
    \A r \in DOMAIN arrays : Len(arrays[r]) <= HistoryCap

\* C5: a call's history is private to the call: no history array holds the
\* user entries of two different connections that are both open.
C5_HistoryPrivate ==
    \A r \in DOMAIN arrays : \A c, d \in ConnsIn(r) :
        (wsState[c] = "open" /\ wsState[d] = "open") => c = d

\* C6: when the completion request of a turn has thrown, the history holds the
\* fallback assistant entry right after that turn's user entry.
C6_FallbackAfterLLMFailure ==
    \A n \in TurnIds :
        turns[n].fail = "llm" =>
            \E i \in DOMAIN arrays[turns[n].hist] :
                /\ arrays[turns[n].hist][i] = UserEntry(n)
                /\ i + 1 \in DOMAIN arrays[turns[n].hist]
                /\ arrays[turns[n].hist][i + 1] = FallbackEntry

\* C7: a failure inside a turn (the completion or the speech request throwing)
\* never crashes the session or the process: the step in which the request
\* fails leaves the process running and the turn's connection as it was.
C7_FailureContained ==
    [][\A n \in TurnIds :
          (LLMReject(n) \/ TTSReject(n)) =>
              (procUp' /\ wsState'[turns[n].conn] = wsState[turns[n].conn])]_vars

\* C8: once the media connection has closed or a stop event was received, no
\* further outbound media event is sent on it: every ws.send call is made on a
\* connection that is open and has not been stopped.
C8_NoSendAfterEnd ==
    \A c \in Conns : \A i \in DOMAIN wsSent[c] :
        wsSent[c][i].open /\ ~wsSent[c][i].stopped

\* C9: a session is torn down on a stop event or on close, whichever comes
\* first: from then on its ASR stream is finished and no stored history holds
\* state of that call.
C9_TornDownOnStopOrClose ==
    \A c \in Conns : TornDown(c) => (dgFinished[c] /\ ~StoredHistoryOf(c))

\* C10: a malformed inbound message is ignored: handling it raises no error
\* out of the message handler, forwards nothing to ASR, changes no session
\* state and leaves the connection open and served.
C10_MalformedIgnored ==
    [][\A c \in Conns :
          WsMessage(c, "badJson") =>
              /\ msgErrors' = msgErrors
              /\ procUp'
              /\ wsState'[c] = "open"
              /\ UNCHANGED <<dgSent, arrays, convMap, turns>>]_vars

\* C11: within one session inbound media frames are forwarded to the ASR
\* stream in exactly their arrival order: the payloads passed to dgLive.send
\* are the payloads that arrived, in the same order, none dropped or repeated.
C11_ForwardedInArrivalOrder ==
    \A c \in Conns : dgSent[c] = arrived[c]

\* Witness of C11: two frames arrived on one connection and were forwarded.
C11_Witness ==
    \E c \in Conns : Len(arrived[c]) >= 2 /\ Len(dgSent[c]) >= 2

\* C12: ingestion is never blocked by the reply pipeline: in every state in
\* which a turn is in flight, the frames that arrived on its connection since
\* the turn began have all been passed to the ASR stream already, in order,
\* without waiting for the turn to finish.
C12_IngestionNotBlocked ==
    \A n \in TurnIds :
        InFlight(turns[n]) =>
            LET c == turns[n].conn
            IN SubSeq(dgSent[c], turns[n].fwdAtStart + 1, Len(dgSent[c]))
                   = SubSeq(arrived[c], turns[n].arrAtStart + 1, Len(arrived[c]))

\* Witness of C12: a turn is still in flight and a frame arrived and was
\* forwarded on its connection after the turn began.
C12_Witness ==
    \E n \in TurnIds :
        /\ InFlight(turns[n])
        /\ Len(arrived[turns[n].conn]) > turns[n].arrAtStart
        /\ Len(dgSent[turns[n].conn]) > turns[n].fwdAtStart

\* The positions in the ws.send log of connection c that hold an event of the
\* given kind sent for turn n.
EventsOf(c, n, kind) ==
    {i \in DOMAIN wsSent[c] : wsSent[c][i].turn = n /\ wsSent[c][i].event = kind}

CeilDiv(a, b) == (a + b - 1) \div b

\* C13: for every completed turn the number of outbound media events equals
\* the synthesized byte length divided by the 160-byte frame size, rounded up,
\* and every media event carries at most 160 bytes.
C13_FramesPerTurn ==
    \A n \in TurnIds :
        turns[n].pc = "done" =>
            LET c == turns[n].conn
            IN /\ Cardinality(EventsOf(c, n, "media")) = CeilDiv(AudioLen(n), FrameSize)
               /\ \A i \in EventsOf(c, n, "media") : wsSent[c][i].bytes <= FrameSize

\* C14: every completed turn ends with exactly one end-of-playback mark event
\* on its connection, sent after all the media events of that turn.
C14_MarkEndsTurn ==
    \A n \in TurnIds :
        turns[n].pc = "done" =>
            LET c == turns[n].conn
            IN /\ Cardinality(EventsOf(c, n, "mark")) = 1
               /\ \A m \in EventsOf(c, n, "mark") :
                      \A i \in EventsOf(c, n, "media") : i < m

\* C15: outbound audio is paced: the sender suspends between frames, so no
\* single step puts more than one frame (160 bytes, 20 ms) of a turn's audio
\* on a connection.
C15_OneFramePerStep ==
    [][\A c \in Conns :
          /\ Len(wsSent'[c]) <= Len(wsSent[c]) + 1
          /\ \A i \in DOMAIN wsSent'[c] \ DOMAIN wsSent[c] :
                 wsSent'[c][i].bytes <= FrameSize]_vars

\* C16: every conversation history, stored in the map, held by a running turn
\* or passed to text generation, is non-empty and begins with the system
\* entry, after any interleaving of turns, failures and deletions.
C16_SystemEntryFirst ==
    \A r \in DOMAIN arrays :
        Len(arrays[r]) >= 1 /\ arrays[r][1] = SystemEntry

\* Witness of C16: two history arrays exist, each with a completed turn, and
\* the second, created while none was stored, is now the stored history.
C16_Witness ==
    /\ Len(arrays) >= 2
    /\ convMap[CallKey] = 2
    /\ Len(arrays[1]) >= 3
    /\ Len(arrays[2]) >= 3
    /\ \E n \in TurnIds : turns[n].hist = 2 /\ ~turns[n].busy /\ turns[n].pc = "done"

\* C17: closed is terminal: a transcript delivered after the media connection
\* has closed starts no turn; it appends nothing to a history and nothing is
\* sent for it.
C17_NoTurnAfterClose ==
    \A n \in TurnIds :
        ~turns[n].wsOpen => (~HasUserEntry(n) /\ ~SentFor(n))

\* History h is the system entry followed by user entries each followed by
\* the assistant entry that answers it; the last user entry may still be
\* waiting for its answer.
Alternates(h) ==
    /\ Len(h) >= 1
    /\ h[1] = SystemEntry
    /\ \A i \in 2..Len(h) :
          IF i % 2 = 0
          THEN h[i].role = "user"
          ELSE h[i] = AssistantEntry(h[i - 1].content)

\* C18: in every reachable state every history is the system entry followed
\* by strictly alternating user and assistant entries, each assistant entry
\* being the reply to the user entry right before it.
C18_HistoryAlternates ==
    \A r \in DOMAIN arrays : Alternates(arrays[r])

\* getAgentResponse has returned the reply of turn n.
Returned(n) == turns[n].pc \in {"awaitTTS", "done"} \/ turns[n].fail = "tts"

\* The history stored under the call key holds the user entry and the
\* assistant entry of turn n.
StoredHasTurn(n) ==
    /\ convMap[CallKey] # NoRef
    /\ \E i \in DOMAIN arrays[convMap[CallKey]] :
          arrays[convMap[CallKey]][i] = UserEntry(n)
    /\ \E i \in DOMAIN arrays[convMap[CallKey]] :
          arrays[convMap[CallKey]][i] = AssistantEntry(n)

\* C19: no completed turn is lost from the stored history: when another turn
\* completes its text generation, a turn whose user and assistant entries
\* were in the stored history still has them there.
C19_NoTurnLost ==
    [][\A n, m \in TurnIds :
          (Returned(n) /\ StoredHasTurn(n) /\ LLMResolve(m)) => StoredHasTurn(n)']_vars

\* C20: replies are delivered in transcript order: on every connection the
\* outbound audio of an earlier transcript is sent before that of a later one.
C20_RepliesInTranscriptOrder ==
    \A c \in Conns : \A i, j \in DOMAIN wsSent[c] :
        i < j => wsSent[c][i].turn < wsSent[c][j].turn

\* C21: reply audio is routed only to the originating connection: every
\* ws.send call made for a transcript is made on the connection whose own ASR
\* stream delivered that transcript.
C21_ReplyToOriginatingConnection ==
    \A c \in Conns : \A i \in DOMAIN wsSent[c] :
        turns[wsSent[c][i].turn].conn = c

\* Witness of C21: two connections were open when their transcripts arrived
\* and each has been sent the reply to its own transcript.
C21_Witness ==
    \E c, d \in Conns :
        /\ c # d
        /\ \E i \in DOMAIN wsSent[c] : turns[wsSent[c][i].turn].wsOpen
        /\ \E j \in DOMAIN wsSent[d] : turns[wsSent[d][j].turn].wsOpen

====
